---- MODULE Spec2Model ----
(***************************************************************************)
(* A model of gpc.py, the line-oriented remote control for a GoPro camera. *)
(*                                                                         *)
(* Text is modelled by what the code does with it:                         *)
(*   - an input line is a sequence of items, each item either one space    *)
(*     " " or a maximal run of non-space characters (a word);              *)
(*   - a URL and a path template are sequences of string pieces, the       *)
(*     placeholder of str.format being the piece "{}";                     *)
(*   - a Python value that send_to can return is a tagged record (str,     *)
(*     int or requests.Response), because the command loop tests its truth *)
(*     value and prints its str().                                         *)
(***************************************************************************)
EXTENDS Integers, Sequences, FiniteSets, TLC

VARIABLES
    gopro,      \* the GoPro session object built from the configuration
    debug,      \* the global DEBUG flag
    pc,         \* position of the main thread
    exc,        \* class of the exception that ended the main thread, "" if none
    nlines,     \* number of lines read from stdin so far
    line,       \* command_text.split(' ') of the last line read
    message,    \* local variable message of main()
    reply,      \* local variable reply of main()
    resp,       \* what requests.get returned for the last request
    http,       \* HTTP GETs issued, in order, each tagged with the line that caused it
    stdout,     \* lines printed to standard output, tagged the same way
    wol,        \* wake-on-lan datagrams sent, tagged the same way (0 = startup)
    ka,         \* position of the keepalive thread
    kasent      \* keepalive datagrams sent, in order

vars == <<gopro, debug, pc, exc, nlines, line, message, reply, resp, http,
          stdout, wol, ka, kasent>>

----------------------------------------------------------------------------
(* Bounds *)

MaxLines == 2       \* input lines read before stdin is at end of file
MaxTicks == 2       \* keepalive datagrams sent before the model stops counting
MaxTokens == 3      \* longest token list handed to from_text on its own

----------------------------------------------------------------------------
(* The session *)

GOPRO_WAKE_ON_LAN_PORT == 9

udp_port == 8554

\* mac_address is a string of hexadecimal digits; each digit is its value.
Sessions ==
    { [ip_address |-> "10.5.5.9",
       mac_address |-> <<13, 4, 13, 9, 8, 7, 6, 5, 4, 3, 2, 1>>,
       keepalive_period |-> 2500] }

----------------------------------------------------------------------------
(* The command catalog *)

CommandEnum ==
    { "default_boot_mode", "display_on", "display_off", "get_info",
      "get_status", "get_battery_level", "power_off", "record_start",
      "record_stop", "stream", "stream_bitrate", "stream_resolution",
      "video_resolution", "wake", "zoom" }

NoMapping == [k \in {} |-> ""]

Def(arity, template) ==
    [arity |-> arity, template |-> template, has_mapping |-> FALSE,
     mapping |-> NoMapping]

MappedDef(arity, template, mapping) ==
    [arity |-> arity, template |-> template, has_mapping |-> TRUE,
     mapping |-> mapping]

definitions ==
    [c \in CommandEnum |->
        CASE c = "default_boot_mode" ->
                MappedDef(1, <<"/setting/53/", "{}">>,
                          ("video" :> "0") @@ ("photo" :> "1") @@ ("multishot" :> "2"))
          [] c = "display_on" -> Def(0, <<"/setting/58/1">>)
          [] c = "display_off" -> Def(0, <<"/setting/58/0">>)
          [] c = "get_info" -> Def(0, <<>>)
          [] c = "get_status" -> Def(0, <<"/status">>)
          [] c = "get_battery_level" -> Def(0, <<"/status">>)
          [] c = "power_off" -> Def(0, <<"/command/system/sleep">>)
          [] c = "record_start" -> Def(0, <<"/command/shutter?p=1">>)
          [] c = "record_stop" -> Def(0, <<"/command/shutter?p=0">>)
          [] c = "stream" -> Def(0, <<"/execute?p1=gpStream&a1=proto_v2&c1=restart">>)
          [] c = "stream_bitrate" -> Def(1, <<"/setting/62/", "{}">>)
          [] c = "stream_resolution" ->
                MappedDef(1, <<"/setting/64/", "{}">>,
                          ("720p" :> "7") @@ ("480p" :> "4") @@ ("240p" :> "1"))
          [] c = "video_resolution" ->
                MappedDef(1, <<"/setting/2/", "{}">>,
                          ("4k" :> "1") @@ ("1440p" :> "7") @@ ("1080p" :> "9")
                              @@ ("720p" :> "12"))
          [] c = "wake" -> Def(0, <<>>)
          [] c = "zoom" -> Def(1, <<"/command/digital_zoom?range_pcnt=", "{}">>)]

----------------------------------------------------------------------------
(* Message.from_text *)

NoCommand == ""

\* A Message object.
Message(command, args) ==
    [kind |-> "Message", command |-> command, args |-> args, what |-> ""]

\* An exception leaving from_text: its class and the line that raised it.
Raise(class, what) ==
    [kind |-> class, command |-> NoCommand, args |-> <<>>, what |-> what]

NoMessage == [kind |-> "None", command |-> NoCommand, args |-> <<>>, what |-> ""]

\* The for loop of lines 75-77 reads message_text[0] on its first round.
FirstToken(message_text) ==
    IF Len(message_text) = 0 THEN Raise("IndexError", "message_text[0]")
    ELSE Message(NoCommand, <<>>)

\* Lines 78-79: the raise statement builds its message from message_text[0].
RaiseDoesNotExist(message_text) == Raise("ValueError", "does_not_exist")

\* Lines 83-84: the raise statement first evaluates the f-string, which reads
\* self.command.value; from_text is a classmethod, whose only names are cls
\* and message_text, so the evaluation raises NameError and the ValueError
\* is never built.
RaiseArity(command, arity, got) == Raise("NameError", "arity")

\* Lines 89-90: the same f-string, the same NameError.
RaiseUnknownArgument(command, arg) == Raise("NameError", "unknown_argument")

\* ApplyMapping, were the assignment of line 91 left out.
ApplyMapping_unmapped(command, definition, args) ==
    IF \E i \in 1..Len(args) : args[i] \notin DOMAIN definition.mapping
    THEN RaiseUnknownArgument(command, args[1])
    ELSE Message(command, args)

\* Lines 86-91: every argument is replaced by its code; the first argument
\* that is not a key of the mapping raises.
ApplyMapping(command, definition, args) ==
    IF \E i \in 1..Len(args) : args[i] \notin DOMAIN definition.mapping
    THEN LET i == CHOOSE j \in 1..Len(args) :
                    /\ args[j] \notin DOMAIN definition.mapping
                    /\ \A k \in 1..(j - 1) : args[k] \in DOMAIN definition.mapping
         IN RaiseUnknownArgument(command, args[i])
    ELSE Message(command, [i \in 1..Len(args) |-> definition.mapping[args[i]]])

\* from_text, were the slice of line 85 to start at the command name.
from_text_slice(message_text) ==
    IF FirstToken(message_text).kind /= "Message" THEN FirstToken(message_text)
    ELSE IF message_text[1] \notin CommandEnum THEN RaiseDoesNotExist(message_text)
    ELSE LET command == message_text[1]
             definition == definitions[command]
             arity == definition.arity
         IN IF Len(Tail(message_text)) /= arity
            THEN RaiseArity(command, arity, Len(Tail(message_text)))
            ELSE LET args == SubSeq(message_text, 1, arity + 1)
                 IN IF definition.has_mapping
                    THEN ApplyMapping(command, definition, args)
                    ELSE Message(command, args)

from_text(message_text) ==
    IF FirstToken(message_text).kind /= "Message" THEN FirstToken(message_text)
    ELSE IF message_text[1] \notin CommandEnum THEN RaiseDoesNotExist(message_text)
    ELSE LET command == message_text[1]
             definition == definitions[command]
             arity == definition.arity
         IN IF Len(Tail(message_text)) /= arity
            THEN RaiseArity(command, arity, Len(Tail(message_text)))
            ELSE LET args == SubSeq(message_text, 2, arity + 1)
                 IN IF definition.has_mapping
                    THEN ApplyMapping(command, definition, args)
                    ELSE Message(command, args)

----------------------------------------------------------------------------
(* str.strip and str.split(' ') on a line of items *)

RECURSIVE lstrip(_)
lstrip(s) == IF s /= <<>> /\ Head(s) = " " THEN lstrip(Tail(s)) ELSE s

RECURSIVE rstrip(_)
rstrip(s) ==
    IF s /= <<>> /\ s[Len(s)] = " " THEN rstrip(SubSeq(s, 1, Len(s) - 1)) ELSE s

strip(s) == rstrip(lstrip(s))

\* Every space ends a token and starts the next one, so the empty string
\* splits into one empty token and two spaces in a row enclose an empty token.
RECURSIVE split(_)
split(s) ==
    IF s = <<>> THEN <<"">>
    ELSE IF Head(s) = " " THEN <<"">> \o split(Tail(s))
    ELSE <<Head(s)>> \o Tail(split(Tail(s)))

----------------------------------------------------------------------------
(* Python values that send_to handles *)

PyValue(type, s, n, status_code, body) ==
    [type |-> type, s |-> s, n |-> n, status_code |-> status_code, body |-> body]

PyStr(s) == PyValue("str", s, 0, 0, "")

PyInt(n) == PyValue("int", "", n, 0, "")

\* A requests.Response: its status code and its body text.
Response(status_code, body) == PyValue("Response", "", 0, status_code, body)

\* An exception in flight, s being its class.
Raised(class) == PyValue("raise", class, 0, 0, "")

None == PyValue("None", "", 0, 0, "")

\* Truth value as the if statement of line 150 takes it: a str is true when
\* non-empty, an int when non-zero, and a Response when its ok property is,
\* that is when raise_for_status would not raise (status outside 400..599).
bool(v) ==
    CASE v.type = "str" -> v.s /= ""
      [] v.type = "int" -> v.n /= 0
      [] v.type = "Response" -> ~(400 <= v.status_code /\ v.status_code < 600)
      [] OTHER -> FALSE

\* What print writes for a value: the text of a str, the digits of an int
\* (the format "%d" of n), and the repr "<Response [%d]>" of a Response.
str(v) ==
    CASE v.type = "str" -> [text |-> v.s, n |-> 0]
      [] v.type = "int" -> [text |-> "%d", n |-> v.n]
      [] v.type = "Response" -> [text |-> "<Response [%d]>", n |-> v.status_code]
      [] OTHER -> [text |-> "None", n |-> 0]

----------------------------------------------------------------------------
(* The camera's answers *)

BodyHtml == "<html>error</html>"
BodyEmptyObject == "{}"
BodyNoBattery == "{\"status\": {\"1\": 1}}"
BodyBattery0 == "{\"status\": {\"2\": 0}}"
BodyBattery87 == "{\"status\": {\"2\": 87}}"
BodyInfo == "{\"info\": {\"model_name\": \"HERO\"}}"

Statuses == {200, 204, 500}

Bodies == {BodyHtml, BodyNoBattery, BodyBattery0, BodyBattery87}

ConnectionError == Raised("ConnectionError")

\* What requests.get can do: return the camera's response or raise.
Outcomes ==
    {Response(st, b) : st \in Statuses, b \in Bodies} \cup {ConnectionError}

\* Response.json(): the parsed body, or JSONDecodeError.
json(body) ==
    CASE body = BodyEmptyObject -> [ok |-> TRUE, value |-> [k \in {} |-> 0]]
      [] body = BodyNoBattery -> [ok |-> TRUE, value |-> [status |-> ("1" :> 1)]]
      [] body = BodyBattery0 -> [ok |-> TRUE, value |-> [status |-> ("2" :> 0)]]
      [] body = BodyBattery87 -> [ok |-> TRUE, value |-> [status |-> ("2" :> 87)]]
      [] body = BodyInfo -> [ok |-> TRUE, value |-> [info |-> ("model_name" :> 1)]]
      [] OTHER -> [ok |-> FALSE, value |-> [k \in {} |-> 0]]

----------------------------------------------------------------------------
(* Message.send_to and Message._build_url *)

\* str.format(*args): the i-th placeholder takes the i-th argument.
RECURSIVE format(_, _)
format(template, args) ==
    IF template = <<>> THEN <<>>
    ELSE IF Head(template) = "{}"
         THEN <<Head(args)>> \o format(Tail(template), Tail(args))
         ELSE <<Head(template)>> \o format(Tail(template), args)

build_url(m, g) ==
    <<"http://", g.ip_address, "/gp/gpControl">>
        \o format(definitions[m.command].template, m.args)

\* BatteryLevel, were the parsed payload returned whole.
BatteryLevel_raw(response) ==
    IF ~json(response.body).ok THEN Raised("JSONDecodeError") ELSE response

\* Line 100: the value under status, then under "2", of the parsed body.
BatteryLevel(response) ==
    LET parsed == json(response.body)
    IN IF ~parsed.ok THEN Raised("JSONDecodeError")
       ELSE IF "status" \notin DOMAIN parsed.value THEN Raised("KeyError")
       ELSE IF "2" \notin DOMAIN parsed.value.status THEN Raised("KeyError")
       ELSE PyInt(parsed.value.status["2"])

\* StreamReply, were the test the response's ok property.
StreamReply_ok(response) ==
    IF bool(response) THEN PyStr("1") ELSE PyStr("0")

\* Lines 104-108.
StreamReply(response) ==
    IF response.status_code = 200 THEN PyStr("1") ELSE PyStr("0")

\* The message whose URL send_to requests: get_battery_level sends a fresh
\* get_status message (line 100), every other command sends itself.
Requested(m) ==
    IF m.command = "get_battery_level" THEN Message("get_status", <<>>) ELSE m

\* What send_to returns or raises once requests.get has produced outcome.
Returned(m, outcome) ==
    IF outcome.type = "raise" THEN outcome
    ELSE IF m.command = "get_battery_level" THEN BatteryLevel(outcome)
    ELSE IF m.command = "stream" THEN StreamReply(outcome)
    ELSE outcome

----------------------------------------------------------------------------
(* send_wake_on_lan *)

RECURSIVE repeat(_, _)
repeat(s, k) == IF k = 0 THEN <<>> ELSE s \o repeat(s, k - 1)

\* fromhex, were the low digit of each pair taken first.
fromhex_swapped(h) == [i \in 1..(Len(h) \div 2) |-> 16 * h[2 * i] + h[2 * i - 1]]

\* bytes.fromhex on a string of hexadecimal digits.
fromhex(h) == [i \in 1..(Len(h) \div 2) |-> 16 * h[2 * i - 1] + h[2 * i]]

WakeDatagram(g) ==
    [payload |-> fromhex([i \in 1..12 |-> 15] \o repeat(g.mac_address, 16)),
     address |-> <<g.ip_address, GOPRO_WAKE_ON_LAN_PORT>>,
     broadcast |-> TRUE]

----------------------------------------------------------------------------
(* What stdin can hold *)

InputLines ==
    { <<>>,                                         \* a blank line
      <<"bogus">>,                                  \* no such command
      <<"zoom">>,                                   \* an argument short
      <<"wake", " ", "now">>,                       \* an argument too many
      <<"zoom", " ", " ", "50">>,                   \* two spaces: three tokens
      <<"video_resolution", " ", "8k">>,            \* not a key of the mapping
      <<"video_resolution", " ", "4k">>,
      <<" ", "zoom", " ", "50", " ">>,
      <<"get_status">>,
      <<"get_battery_level">>,
      <<"stream">>,
      <<"wake">> }

----------------------------------------------------------------------------
(* The state after the configuration is read and the GoPro object built *)

\* Init, were the keepalive thread started before the startup wake.
Init_started ==
    /\ gopro \in Sessions
    /\ debug \in BOOLEAN
    /\ pc = "wake"
    /\ exc = ""
    /\ nlines = 0
    /\ line = <<>>
    /\ message = NoMessage
    /\ reply = None
    /\ resp = None
    /\ http = <<>>
    /\ stdout = <<>>
    /\ wol = <<>>
    /\ ka = "tick"
    /\ kasent = <<>>

Init ==
    /\ gopro \in Sessions
    /\ debug \in BOOLEAN
    /\ pc = "wake"
    /\ exc = ""
    /\ nlines = 0
    /\ line = <<>>
    /\ message = NoMessage
    /\ reply = None
    /\ resp = None
    /\ http = <<>>
    /\ stdout = <<>>
    /\ wol = <<>>
    /\ ka = "unstarted"
    /\ kasent = <<>>

Alive == pc \notin {"exited", "crashed"}

\* The exit status of the process: 0 from sys.exit(0) (lines 156 and 185), 1
\* from an exception nothing catches, none (-1) while it runs.
ExitStatus ==
    CASE pc = "exited" -> 0
      [] pc = "crashed" -> 1
      [] OTHER -> -1

\* An exception nothing catches ends the main thread with a traceback.
Crash(class) == pc' = "crashed" /\ exc' = class

Get(m) == [n |-> nlines, url |-> build_url(Requested(m), gopro)]

Printed(v) == [n |-> nlines, out |-> str(v)]

Woken == [n |-> nlines, datagram |-> WakeDatagram(gopro)]

----------------------------------------------------------------------------
(* main: startup, lines 128-140 *)

\* Line 129, the datagram leaves.
StartupWake ==
    /\ pc = "wake"
    /\ wol' = Append(wol, Woken)
    /\ pc' = "start_keepalive"
    /\ UNCHANGED <<gopro, debug, exc, nlines, line, message, reply, resp, http,
                   stdout, ka, kasent>>

\* Line 129, socket() or sendto() raises OSError.
StartupWakeFails ==
    /\ pc = "wake"
    /\ Crash("OSError")
    /\ UNCHANGED <<gopro, debug, nlines, line, message, reply, resp, http,
                   stdout, wol, ka, kasent>>

\* Lines 130-131.
StartKeepalive ==
    /\ pc = "start_keepalive"
    /\ ka' = "tick"
    /\ pc' = IF debug THEN "probe" ELSE "read"
    /\ UNCHANGED <<gopro, debug, exc, nlines, line, message, reply, resp, http,
                   stdout, wol, kasent>>

\* Lines 132-140 with DEBUG on: get_info, then get_battery_level, each a GET
\* whose answer must parse; what is learnt goes to stderr.
DebugProbe ==
    /\ pc = "probe"
    /\ \E info \in Outcomes \cup {Response(200, BodyInfo)} :
          LET get_info == [n |-> 0, url |-> build_url(Message("get_info", <<>>), gopro)]
              get_battery == [n |-> 0,
                              url |-> build_url(Requested(Message("get_battery_level", <<>>)), gopro)]
          IN IF info.type = "raise"
             THEN /\ Crash(info.s)
                  /\ http' = Append(http, get_info)
                  /\ resp' = info
             ELSE IF ~json(info.body).ok
             THEN /\ Crash("JSONDecodeError")
                  /\ http' = Append(http, get_info)
                  /\ resp' = info
             ELSE IF "info" \notin DOMAIN json(info.body).value
             THEN /\ Crash("KeyError")
                  /\ http' = Append(http, get_info)
                  /\ resp' = info
             ELSE \E status \in Outcomes :
                    LET level == Returned(Message("get_battery_level", <<>>), status)
                    IN /\ http' = http \o <<get_info, get_battery>>
                       /\ resp' = status
                       /\ IF level.type = "raise"
                          THEN Crash(level.s)
                          ELSE pc' = "read" /\ exc' = exc
    /\ UNCHANGED <<gopro, debug, nlines, line, message, reply, stdout, wol,
                   ka, kasent>>

----------------------------------------------------------------------------
(* main: the command loop, lines 142-156 *)

\* ReadLine, were the player started without waiting for it to end.
ReadLine_async ==
    /\ pc \in {"read", "player"}
    /\ nlines < MaxLines
    /\ \E text \in InputLines :
          LET command_text == strip(text)
              parsed == from_text(split(command_text))
          IN /\ line' = split(command_text)
             /\ nlines' = nlines + 1
             /\ IF parsed.kind = "Message"
                THEN message' = parsed /\ pc' = "send_to" /\ exc' = exc
                ELSE IF parsed.kind = "ValueError"
                THEN message' = message /\ pc' = "read" /\ exc' = exc
                ELSE message' = message /\ Crash(parsed.kind)
    /\ UNCHANGED <<gopro, debug, reply, resp, http, stdout, wol, ka, kasent>>

\* Lines 142-148: the next line is read, stripped, split and parsed.  A
\* ValueError is caught and the loop continues; any other exception is not.
ReadLine ==
    /\ pc = "read"
    /\ nlines < MaxLines
    /\ \E text \in InputLines :
          LET command_text == strip(text)
              parsed == from_text(split(command_text))
          IN /\ line' = split(command_text)
             /\ nlines' = nlines + 1
             /\ IF parsed.kind = "Message"
                THEN message' = parsed /\ pc' = "send_to" /\ exc' = exc
                ELSE IF parsed.kind = "ValueError"
                THEN message' = message /\ pc' = "read" /\ exc' = exc
                ELSE message' = message /\ Crash(parsed.kind)
    /\ UNCHANGED <<gopro, debug, reply, resp, http, stdout, wol, ka, kasent>>

\* Line 142 at end of file, then line 156.
EndOfInput ==
    /\ pc = "read"
    /\ pc' = "exited"
    /\ UNCHANGED <<gopro, debug, exc, nlines, line, message, reply, resp, http,
                   stdout, wol, ka, kasent>>

\* Lines 95-98 and 149-153 for wake: the datagram leaves, '' is returned,
\* which is false at line 150.
SendWake ==
    /\ pc = "send_to"
    /\ message.command = "wake"
    /\ wol' = Append(wol, Woken)
    /\ reply' = PyStr("")
    /\ stdout' = IF bool(PyStr("")) THEN Append(stdout, Printed(PyStr(""))) ELSE stdout
    /\ pc' = "read"
    /\ UNCHANGED <<gopro, debug, exc, nlines, line, message, resp, http, ka, kasent>>

\* Line 97, socket() or sendto() raises OSError inside send_to.
SendWakeFails ==
    /\ pc = "send_to"
    /\ message.command = "wake"
    /\ Crash("OSError")
    /\ UNCHANGED <<gopro, debug, nlines, line, message, reply, resp, http,
                   stdout, wol, ka, kasent>>

\* HttpGet, were the wake branch of lines 95-98 to fall through to the GET.
HttpGet_any ==
    /\ pc = "send_to"
    /\ http' = Append(http, Get(message))
    /\ pc' = "http"
    /\ UNCHANGED <<gopro, debug, exc, nlines, line, message, reply, resp,
                   stdout, wol, ka, kasent>>

\* Lines 99-103: the GET is issued and the main thread waits for the answer.
HttpGet ==
    /\ pc = "send_to"
    /\ message.command /= "wake"
    /\ http' = Append(http, Get(message))
    /\ pc' = "http"
    /\ UNCHANGED <<gopro, debug, exc, nlines, line, message, reply, resp,
                   stdout, wol, ka, kasent>>

\* Lines 100-109 and 149-153: requests.get returns or raises, send_to returns
\* or raises, the reply is printed when it is true, and after stream the
\* player is started.
HttpReturn ==
    /\ pc = "http"
    /\ \E outcome \in Outcomes :
          LET returned == Returned(message, outcome)
          IN /\ resp' = outcome
             /\ IF returned.type = "raise"
                THEN /\ Crash(returned.s)
                     /\ UNCHANGED <<reply, stdout>>
                ELSE /\ reply' = returned
                     /\ stdout' = IF bool(returned)
                                  THEN Append(stdout, Printed(returned))
                                  ELSE stdout
                     /\ pc' = IF message.command = "stream" THEN "player" ELSE "read"
                     /\ exc' = exc
    /\ UNCHANGED <<gopro, debug, nlines, line, message, http, wol, ka, kasent>>

\* Line 154: subprocess.run returns when the player ends.
PlayerEnds ==
    /\ pc = "player"
    /\ pc' = "read"
    /\ UNCHANGED <<gopro, debug, exc, nlines, line, message, reply, resp, http,
                   stdout, wol, ka, kasent>>

\* Line 154: the player cannot be started.
PlayerFails ==
    /\ pc = "player"
    /\ Crash("FileNotFoundError")
    /\ UNCHANGED <<gopro, debug, nlines, line, message, reply, resp, http,
                   stdout, wol, ka, kasent>>

\* signal_quit: SIGINT makes the main thread call sys.exit(0).
signal_quit ==
    /\ Alive
    /\ pc' = "exited"
    /\ UNCHANGED <<gopro, debug, exc, nlines, line, message, reply, resp, http,
                   stdout, wol, ka, kasent>>

----------------------------------------------------------------------------
(* keepalive, a daemon thread: it runs while the process does *)

\* Lines 160-162: the payload and where it goes.
KeepaliveDatagram(g) ==
    [payload |-> <<"_GPHD_:0:0:2:0.000000", "\n">>,
     address |-> <<g.ip_address, udp_port>>]

\* KeepaliveSend, were the thread to outlive the main thread.
KeepaliveSend_orphan ==
    /\ ka = "tick"
    /\ Len(kasent) < MaxTicks
    /\ kasent' = Append(kasent, KeepaliveDatagram(gopro))
    /\ ka' = "sleep"
    /\ UNCHANGED <<gopro, debug, pc, exc, nlines, line, message, reply, resp,
                   http, stdout, wol>>

\* Lines 160-162, the datagram leaves.
KeepaliveSend ==
    /\ Alive
    /\ ka = "tick"
    /\ Len(kasent) < MaxTicks
    /\ kasent' = Append(kasent, KeepaliveDatagram(gopro))
    /\ ka' = "sleep"
    /\ UNCHANGED <<gopro, debug, pc, exc, nlines, line, message, reply, resp,
                   http, stdout, wol>>

\* Lines 161-162, socket() or sendto() raises OSError: nothing in keepalive
\* catches it, the thread's run ends with a traceback.
KeepaliveFails ==
    /\ Alive
    /\ ka = "tick"
    /\ ka' = "dead"
    /\ UNCHANGED <<gopro, debug, pc, exc, nlines, line, message, reply, resp,
                   http, stdout, wol, kasent>>

\* Line 163, the sleep is over.
KeepaliveSleep ==
    /\ Alive
    /\ ka = "sleep"
    /\ ka' = "tick"
    /\ UNCHANGED <<gopro, debug, pc, exc, nlines, line, message, reply, resp,
                   http, stdout, wol, kasent>>

----------------------------------------------------------------------------

Next ==
    \/ StartupWake
    \/ StartupWakeFails
    \/ StartKeepalive
    \/ DebugProbe
    \/ ReadLine
    \/ EndOfInput
    \/ SendWake
    \/ SendWakeFails
    \/ HttpGet
    \/ HttpReturn
    \/ PlayerEnds
    \/ PlayerFails
    \/ signal_quit
    \/ KeepaliveSend
    \/ KeepaliveFails
    \/ KeepaliveSleep

Spec == Init /\ [][Next]_vars

----------------------------------------------------------------------------
(* Message.from_text on its own: every token list over the vocabulary *)

Vocabulary ==
    CommandEnum \cup
    { "video", "photo", "multishot", "720p", "480p", "240p", "4k", "1440p",
      "1080p", "8k", "50", "", "bogus" }

TokenLists == UNION { [1..k -> Vocabulary] : k \in 0..MaxTokens }

InitParse ==
    /\ gopro \in Sessions
    /\ debug = FALSE
    /\ pc = "from_text"
    /\ exc = ""
    /\ nlines = 0
    /\ line \in TokenLists
    /\ message = NoMessage
    /\ reply = None
    /\ resp = None
    /\ http = <<>>
    /\ stdout = <<>>
    /\ wol = <<>>
    /\ ka = "unstarted"
    /\ kasent = <<>>

\* One call of Message.from_text(line); message takes what it returns or raises.
FromText ==
    /\ pc = "from_text"
    /\ message' = from_text(line)
    /\ pc' = "parsed"
    /\ UNCHANGED <<gopro, debug, exc, nlines, line, reply, resp, http, stdout,
                   wol, ka, kasent>>

\* One call of _build_url on the Message that from_text returned; the URL is
\* kept where a GET of it would be.
BuildUrl ==
    /\ pc = "parsed"
    /\ message.kind = "Message"
    /\ http' = Append(http, [n |-> nlines, url |-> build_url(message, gopro)])
    /\ pc' = "built"
    /\ UNCHANGED <<gopro, debug, exc, nlines, line, message, reply, resp, stdout,
                   wol, ka, kasent>>

NextParse == FromText \/ BuildUrl

SpecParse == InitParse /\ [][NextParse]_vars

----------------------------------------------------------------------------
(* send_wake_on_lan on its own: every MAC address over three octet values *)

MacOctets == { <<0, 0>>, <<10, 5>>, <<15, 15>> }

Macs ==
    { o[1] \o o[2] \o o[3] \o o[4] \o o[5] \o o[6] : o \in [1..6 -> MacOctets] }

InitWake ==
    /\ gopro \in { [ip_address |-> "10.5.5.9", mac_address |-> mac,
                    keepalive_period |-> 2500] : mac \in Macs }
    /\ debug = FALSE
    /\ pc = "send_wake_on_lan"
    /\ exc = ""
    /\ nlines = 0
    /\ line = <<>>
    /\ message = NoMessage
    /\ reply = None
    /\ resp = None
    /\ http = <<>>
    /\ stdout = <<>>
    /\ wol = <<>>
    /\ ka = "unstarted"
    /\ kasent = <<>>

\* One call of send_wake_on_lan(gopro).
WakeOnLan ==
    /\ pc = "send_wake_on_lan"
    /\ wol' = Append(wol, Woken)
    /\ pc' = "sent"
    /\ UNCHANGED <<gopro, debug, exc, nlines, line, message, reply, resp, http,
                   stdout, ka, kasent>>

NextWake == WakeOnLan

SpecWake == InitWake /\ [][NextWake]_vars

----------------------------------------------------------------------------
(* Properties *)

\* The reasons for which the parser is to reject a token list: no command
\* name, a name the catalog lacks, a wrong number of arguments, an argument
\* the command's mapping lacks.
Arguments(tokens) == Len(tokens) - 1

UnknownCommand(tokens) == tokens = <<>> \/ tokens[1] \notin CommandEnum

ArityMismatch(tokens) ==
    /\ ~UnknownCommand(tokens)
    /\ Arguments(tokens) /= definitions[tokens[1]].arity

UnknownArgumentValue(tokens) ==
    /\ ~UnknownCommand(tokens)
    /\ ~ArityMismatch(tokens)
    /\ definitions[tokens[1]].has_mapping
    /\ \E i \in 2..Len(tokens) : tokens[i] \notin DOMAIN definitions[tokens[1]].mapping

ParseError(tokens) ==
    UnknownCommand(tokens) \/ ArityMismatch(tokens) \/ UnknownArgumentValue(tokens)

\* A step of the command loop that reads a line.
ReadsLine == pc = "read" /\ nlines' = nlines + 1

\* A step in which requests.get, and with it send_to, comes to its end.
GetEnds == pc = "http" /\ pc' \in {"read", "player", "crashed"}

\* The URL of the camera's control API followed by a path.
ControlUrl(path) == <<"http://", gopro.ip_address, "/gp/gpControl">> \o path

\* The GETs that line number k caused.
GetsOf(k) == {i \in DOMAIN http : http[i].n = k}

\* C1: a line whose parse fails, for whichever of the four reasons, is
\* skipped: no GET, no wake datagram, nothing printed, the process lives on
\* and the loop is back at reading the next line.
C1_ParseErrorSkipsLine ==
    [][(ReadsLine /\ ParseError(line'))
          => (pc' = "read" /\ http' = http /\ wol' = wol /\ stdout' = stdout)]_vars

\* The ways send_to fails: requests.get raises, or the battery level cannot
\* be read from the status body.
DispatchError(m, outcome) ==
    \/ outcome = ConnectionError
    \/ /\ m.command = "get_battery_level"
       /\ outcome.body \notin {BodyBattery0, BodyBattery87}

\* C2: when requests.get raises, or get_battery_level gets a status body
\* that does not parse or lacks the battery key, nothing is printed, the
\* process lives on and the loop is back at reading the next line.
C2_DispatchErrorRecovered ==
    [][(GetEnds /\ DispatchError(message, resp'))
          => (pc' = "read" /\ stdout' = stdout)]_vars

\* A step in which the keepalive thread leaves its tick without a datagram sent.
TickFails == ka = "tick" /\ ka' /= "tick" /\ kasent' = kasent

\* C3: a keepalive tick that fails leaves the process alive and the
\* keepalive loop running: it goes on to its sleep and to the next tick.
C3_FailedTickContinues ==
    [][TickFails => (pc' = pc /\ ka' = "sleep")]_vars

\* C4: for a known command and a number of arguments other than its arity,
\* from_text raises the ValueError of the arity mismatch, and nothing else.
C4_ArityMismatchIsValueError ==
    (pc = "parsed" /\ ArityMismatch(line))
        => (message.kind = "ValueError" /\ message.what = "arity")

\* C5: for a command of arity 1 with a mapping, from_text([name, token])
\* raises the ValueError of the unknown argument when token is not a key of
\* the mapping, and returns a Message with args [mapping[token]] when it is.
C5_MappedArgument ==
    (pc = "parsed" /\ Len(line) = 2 /\ line[1] \in CommandEnum
        /\ definitions[line[1]].arity = 1 /\ definitions[line[1]].has_mapping)
        => IF line[2] \in DOMAIN definitions[line[1]].mapping
           THEN message = Message(line[1], <<definitions[line[1]].mapping[line[2]]>>)
           ELSE message.kind = "ValueError" /\ message.what = "unknown_argument"

\* The success statuses of HTTP, and the URL of the stream command.
Success(status_code) == 200 <= status_code /\ status_code < 300

StreamUrl == ControlUrl(<<"/execute?p1=gpStream&a1=proto_v2&c1=restart">>)

\* C6 as stated: stream performs the GET and replies "1" for every success
\* status and "0" for every other status, never the raw response.
C6_StreamReplyBySuccess ==
    pc = "player"
        => /\ message.command = "stream"
           /\ http[Len(http)] = [n |-> nlines, url |-> StreamUrl]
           /\ reply = IF Success(resp.status_code) THEN PyStr("1") ELSE PyStr("0")

\* C6 as amended: stream performs one GET and replies "1" when the status
\* code is 200 and "0" for every other status code, the other success
\* statuses included; never the raw response.
C6_StreamReplyBy200 ==
    pc = "player"
        => /\ message.command = "stream"
           /\ http[Len(http)] = [n |-> nlines, url |-> StreamUrl]
           /\ Cardinality(GetsOf(nlines)) = 1
           /\ reply = IF resp.status_code = 200 THEN PyStr("1") ELSE PyStr("0")
           /\ reply /= resp

C6_Witness ==
    /\ pc = "player"
    /\ resp.type = "Response" /\ resp.status_code = 204
    /\ reply = PyStr("0")

\* The status body that reports a battery level.
StatusBody(level) ==
    CASE level = 0 -> "{\"status\": {\"2\": 0}}"
      [] level = 87 -> "{\"status\": {\"2\": 87}}"

\* C7: get_battery_level issues exactly one GET, to <base>/status, and its
\* reply is the value under status["2"] of the body, whatever that value;
\* the raw payload is never the reply.
C7_BatteryLevel ==
    (pc = "read" /\ message.command = "get_battery_level")
        => /\ \E level \in {0, 87} :
                resp.body = StatusBody(level) /\ reply = PyInt(level)
           /\ reply /= resp
           /\ http[Len(http)].url = ControlUrl(<<"/status">>)
           /\ Cardinality(GetsOf(http[Len(http)].n)) = 1

C7_Witness ==
    /\ pc = "read"
    /\ message.command = "get_battery_level"
    /\ resp = Response(200, "{\"status\": {\"2\": 87}}")
    /\ reply = PyInt(87)

\* C8: the wake command never causes a GET: the main thread is never waiting
\* on a GET for a wake message, and the step that dispatches wake leaves the
\* requests and stdout as they were; when it returns, one datagram has gone
\* to port 9 of the session's address and the reply is the empty string.
C8_WakeWithoutHttp ==
    /\ [](pc = "http" => message.command /= "wake")
    /\ [][(pc = "send_to" /\ message.command = "wake")
            => /\ http' = http
               /\ stdout' = stdout
               /\ pc' = "read"
                    => /\ reply' = PyStr("")
                       /\ Len(wol') = Len(wol) + 1
                       /\ wol'[Len(wol')].n = nlines
                       /\ wol'[Len(wol')].datagram.address = <<gopro.ip_address, 9>>
                       /\ wol'[Len(wol')].datagram = WakeDatagram(gopro)]_vars

C8_Witness ==
    /\ pc = "read"
    /\ message.command = "wake"
    /\ reply = PyStr("")
    /\ Len(wol) = 2 /\ wol[2].n = 1
    /\ http = <<>>
    /\ stdout = <<>>

\* C9: for a command other than wake, get_battery_level and stream, send_to
\* issues one GET to the base URL followed by the rendered template and its
\* reply is the body of the response, whatever the status.
C9_ReplyIsRawBody ==
    (pc = "read" /\ message.kind = "Message"
        /\ message.command \notin {"wake", "get_battery_level", "stream"})
        => /\ reply = PyStr(resp.body)
           /\ http[Len(http)].url
                = ControlUrl(format(definitions[message.command].template, message.args))
           /\ Cardinality(GetsOf(http[Len(http)].n)) = 1

\* C10: the command loop prints exactly one line for every command that
\* comes back from its GET (get_status, get_info, get_battery_level with any
\* level, the pass-through commands with any status, stream), and nothing in
\* any other step (wake, skipped lines).
C10_OneLinePerReply ==
    [][IF pc = "http" /\ pc' \in {"read", "player"}
       THEN stdout' = Append(stdout, [n |-> nlines, out |-> str(reply')])
       ELSE stdout' = stdout]_vars

\* The keepalive thread has been started and the process runs.
KeepaliveStarted == pc \notin {"wake", "start_keepalive"}

\* C11: from its start until the process ends the keepalive loop keeps
\* sending: it is in its loop, sending or sleeping, whatever the main thread
\* is doing (reading stdin, waiting on a GET, waiting on the player), and
\* every datagram it has sent carries the fixed payload to port 8554 of the
\* session's address.
C11_KeepaliveKeepsSending ==
    (Alive /\ KeepaliveStarted)
        => /\ ka \in {"tick", "sleep"}
           /\ \A i \in DOMAIN kasent :
                kasent[i] = [payload |-> <<"_GPHD_:0:0:2:0.000000", "\n">>,
                             address |-> <<gopro.ip_address, 8554>>]

\* The j-th octet of the session's MAC address.
MacOctet(j) == 16 * gopro.mac_address[2 * j - 1] + gopro.mac_address[2 * j]

\* C12: for every MAC address the wake packet is 102 bytes, six bytes 0xFF
\* and then the six octets of the MAC sixteen times over, so a function of
\* the MAC alone; it goes to port 9 of the session's address with the
\* broadcast option set.
C12_WakePacket ==
    pc = "sent"
        => /\ Len(wol) = 1
           /\ Len(wol[1].datagram.payload) = 102
           /\ \A i \in 1..6 : wol[1].datagram.payload[i] = 255
           /\ \A k \in 0..15 : \A j \in 1..6 :
                wol[1].datagram.payload[6 + 6 * k + j] = MacOctet(j)
           /\ wol[1].datagram.address = <<gopro.ip_address, 9>>
           /\ wol[1].datagram.broadcast

C12_Witness ==
    /\ pc = "sent"
    /\ gopro.mac_address = <<10, 5, 0, 0, 15, 15, 10, 5, 0, 0, 15, 15>>
    /\ Len(wol[1].datagram.payload) = 102
    /\ wol[1].datagram.payload[97] = 165
    /\ wol[1].datagram.payload[102] = 255

\* A step in which the startup call of send_wake_on_lan ends without a
\* datagram sent.
StartupWakeFailed == pc = "wake" /\ pc' \notin {"wake", "exited"} /\ wol' = wol

\* C13: a startup wake that fails is not fatal: the main thread goes on to
\* start the keepalive thread, and with it to the command loop.
C13_StartupWakeFailureNotFatal ==
    [][StartupWakeFailed => (pc' = "start_keepalive" /\ ExitStatus' = -1)]_vars

\* C14: an interrupt can be taken in every state of the running process,
\* whatever the main thread waits on; the step that takes it ends the process
\* with exit status 0; and once the process has exited no command is
\* dispatched, nothing is printed and no datagram, keepalive or wake, is sent.
C14_InterruptExits ==
    /\ [](Alive => ENABLED signal_quit)
    /\ [][signal_quit => (~Alive' /\ ExitStatus' = 0)]_vars
    /\ [][pc = "exited"
            => (pc' = "exited" /\ http' = http /\ stdout' = stdout /\ wol' = wol
                /\ kasent' = kasent /\ nlines' = nlines)]_vars

\* The process has exited with a GET still unanswered and the keepalive
\* thread in its loop.
C14_Witness ==
    /\ pc = "exited"
    /\ ~debug
    /\ Len(http) = 1 /\ resp = None
    /\ ka = "sleep" /\ Len(kasent) = 1

\* The commands that take no argument.
Arity0 ==
    { "display_on", "display_off", "get_info", "get_status",
      "get_battery_level", "power_off", "record_start", "record_stop",
      "stream", "wake" }

\* C15: the commands of arity 0 are these ten, and from_text([name]) for
\* each of them returns a Message of that command with no argument.
C15_Arity0Parses ==
    /\ Arity0 = {c \in CommandEnum : definitions[c].arity = 0}
    /\ (pc = "parsed" /\ Len(line) = 1 /\ line[1] \in Arity0)
          => message = [kind |-> "Message", command |-> line[1], args |-> <<>>,
                        what |-> ""]

C15_Witness ==
    /\ pc = "parsed"
    /\ line = <<"get_battery_level">>
    /\ message.kind = "Message"
    /\ message.command = "get_battery_level"
    /\ message.args = <<>>

\* C16: from_text of the empty token list raises the parse error of empty
\* input, a ValueError as the other parse errors are, raised before the
\* catalog is searched.
C16_EmptyInputIsParseError ==
    (pc = "parsed" /\ line = <<>>)
        => (message.kind = "ValueError" /\ message.what = "empty_input")

\* The URL that _build_url gives for the token list tokens, when it parses.
UrlOf(tokens) == build_url(from_text(tokens), gopro)

\* C17: the URL of a parsed line is the base http://<ip>/gp/gpControl
\* followed by the template with its placeholder filled by the mapped
\* argument: video_resolution 4k ends in /setting/2/1 and video_resolution
\* 1080p in /setting/2/9; another valid argument of the same command gives
\* another URL; and zoom and stream_bitrate, which have no mapping, carry
\* their argument unchanged.
C17_UrlRendering ==
    pc = "built"
        => /\ Len(http) = 1
           /\ SubSeq(http[1].url, 1, 3) = <<"http://", gopro.ip_address, "/gp/gpControl">>
           /\ "{}" \notin {http[1].url[i] : i \in DOMAIN http[1].url}
           /\ line = <<"video_resolution", "4k">>
                => SubSeq(http[1].url, 4, Len(http[1].url)) = <<"/setting/2/", "1">>
           /\ line = <<"video_resolution", "1080p">>
                => SubSeq(http[1].url, 4, Len(http[1].url)) = <<"/setting/2/", "9">>
           /\ line[1] = "zoom"
                => SubSeq(http[1].url, 4, Len(http[1].url))
                      = <<"/command/digital_zoom?range_pcnt=", line[2]>>
           /\ line[1] = "stream_bitrate"
                => SubSeq(http[1].url, 4, Len(http[1].url)) = <<"/setting/62/", line[2]>>
           /\ Len(line) = 2
                => \A other \in Vocabulary :
                      (other /= line[2] /\ from_text(<<line[1], other>>).kind = "Message")
                          => UrlOf(<<line[1], other>>) /= http[1].url

C17_Witness ==
    /\ pc = "built"
    /\ line = <<"video_resolution", "1080p">>
    /\ http[1].url = <<"http://", "10.5.5.9", "/gp/gpControl", "/setting/2/", "9">>

\* The lines printed for line number k.
PrintsOf(k) == {i \in DOMAIN stdout : stdout[i].n = k}

\* C18: the main loop takes one line at a time.  While a GET is awaited it
\* is the only GET of the current line and nothing has been printed for that
\* line; when the player runs the reply of its line is printed; no line
\* causes more than one GET; a line is read only with the main thread back
\* at the head of the loop, neither awaiting a GET nor the player; and a GET
\* is issued, for the current line, only when none is awaited.
C18_OneLineAtATime ==
    /\ [](pc = "http" => (Cardinality(GetsOf(nlines)) = 1 /\ PrintsOf(nlines) = {}))
    /\ [](pc = "player" => (Cardinality(GetsOf(nlines)) = 1 /\ PrintsOf(nlines) /= {}))
    /\ [](\A k \in 1..nlines : Cardinality(GetsOf(k)) <= 1)
    /\ [][nlines' /= nlines => (pc = "read" /\ nlines' = nlines + 1)]_vars
    /\ [][http' /= http
            => (pc /= "http" /\ nlines' = nlines
                /\ \A i \in (DOMAIN http') \ (DOMAIN http) : http'[i].n = nlines)]_vars

\* The GET of the second line is awaited, the first line's GET answered and
\* its reply printed.
C18_Witness ==
    /\ pc = "http"
    /\ ~debug
    /\ nlines = 2
    /\ Len(http) = 2 /\ http[1].n = 1 /\ http[2].n = 2
    /\ Len(stdout) = 1 /\ stdout[1].n = 1

\* The wake datagrams sent at startup, before any line was read.
StartupWakes == {i \in DOMAIN wol : wol[i].n = 0}

\* C20: the startup wake datagram is sent at most once, and it has been
\* sent, first of all datagrams, once the keepalive thread is started, a
\* keepalive datagram sent, a GET issued or a line read; and the keepalive
\* thread is started before the first line is read.
C20_StartupOrder ==
    /\ Cardinality(StartupWakes) <= 1
    /\ (ka /= "unstarted" \/ kasent /= <<>> \/ http /= <<>> \/ nlines > 0)
          => (StartupWakes = {1} /\ wol[1].datagram.address = <<gopro.ip_address, 9>>)
    /\ nlines > 0 => ka /= "unstarted"

C20_Witness ==
    /\ pc = "http"
    /\ nlines = 1
    /\ Len(kasent) = 1
    /\ Len(wol) = 1 /\ wol[1].n = 0
    /\ Len(http) = 1

====
